---- MODULE Spec2Model ----
(***************************************************************************)
(* Model of cosmos/converter.py: the constructor of DbtToAirflowConverter   *)
(* and the helpers it calls (migrate_to_new_interface,                      *)
(* validate_initial_user_config, validate_adapted_user_config,              *)
(* validate_arguments).                                                     *)
(*                                                                          *)
(* Python values are tokens (strings); None is the token "None", a missing  *)
(* dict key is the token "<absent>".  Caller-owned objects live in `heap`;  *)
(* objects the constructor creates (defaults, deep copies) live in `priv`;  *)
(* the constructor's locals execution_config / render_config /              *)
(* operator_args are references that say which of the two they point at.    *)
(***************************************************************************)
EXTENDS Integers, Sequences, FiniteSets, TLC

VARIABLES
    heap,              \* caller-owned objects: project, profile, execution, render, operator_args
    snapshot,          \* ghost: heap as it was when the current call started
    original,          \* ghost: the objects as the caller first supplied them
    priv,              \* objects created inside the call: execution, render
    target,            \* the dag / task_group / parse_all_dags arguments
    current_dag_id,    \* get_parsing_context().dag_id
    pc,                \* position inside __init__
    dag,               \* local `dag` after lines 213-214
    execution_config,  \* local reference: "caller" | "default" | "copy"
    render_config,     \* local reference: "caller" | "default" | "copy"
    operator_args,     \* local reference: "caller" | "default"
    env_vars,          \* local env_vars (line 243)
    dbt_vars,          \* local dbt_vars (line 244)
    task_args,         \* local task_args dict (lines 265-277)
    outcome,           \* "Running" | "Done" | "EarlyExit" | "Error"
    error,             \* the exception raised, if any
    calls,             \* sequence of the collaborators invoked by this call
    warnings,          \* deprecation warnings / log warnings emitted by this call
    loaderSaw,         \* arguments DbtGraph(...) / load(...) received
    builderSaw,        \* arguments build_airflow_graph(...) received
    build,             \* number of the current constructor call
    previous           \* ghost: the ProjectConfig and the outcome of the preceding call

vars == << heap, snapshot, original, priv, target, current_dag_id, pc, dag,
           execution_config, render_config, operator_args, env_vars, dbt_vars,
           task_args, outcome, error, calls, warnings, loaderSaw, builderSaw, build, previous >>

-----------------------------------------------------------------------------
(* Bounds *)

MaxBuilds == 2      \* constructor calls sharing the same config objects
MaxLen == 2         \* longest select / exclude list

-----------------------------------------------------------------------------
(* Python values *)

None == "None"
Absent == "<absent>"

\* Python truthiness of a token: None, "", {} and [] are falsy.
Truthy(v) == v \notin {None, "", "{}", "[]"}

\* `a or b`
Or(a, b) == IF Truthy(a) THEN a ELSE b

\* dict.get(key): None when the key is missing
Get(d, k) == IF d[k] = Absent THEN None ELSE d[k]

\* `key in dict`
In(k, d) == d[k] # Absent

ExecutionModes == {"local", "virtualenv", "kubernetes", "docker", "aws_eks"}

\* keys of the task_args dict; operator_args may carry any of them
TaskKeys == {"env", "vars", "schema", "retries", "project_dir", "partial_parse",
             "profile_config", "emit_datasets", "dbt_executable_path", "invocation_mode"}

OperatorKeys == TaskKeys

EmptyDict == [k \in OperatorKeys |-> Absent]

NoTaskArgs == [k \in TaskKeys |-> Absent]

NoError == [kind |-> None, msg |-> None, site |-> None, field |-> None, items |-> {}]

CosmosValueError(site, msg) ==
    [kind |-> "CosmosValueError", msg |-> msg, site |-> site, field |-> None, items |-> {}]

\* ExecutionConfig() / RenderConfig(): every optional field unset.
\* The default execution mode is not fixed by converter.py.
DefaultExecutionConfigs ==
    { [given |-> TRUE, project_path |-> None, execution_mode |-> m,
       dbt_executable_path |-> None, invocation_mode |-> None] : m \in ExecutionModes }

DefaultRenderConfig ==
    [given |-> TRUE, project_path |-> None, select |-> << >>, exclude |-> << >>,
     env_vars |-> None, emit_datasets |-> "True"]

\* An argument that was not supplied (None).
NoExecutionConfig ==
    [given |-> FALSE, project_path |-> None, execution_mode |-> None,
     dbt_executable_path |-> None, invocation_mode |-> None]

NoRenderConfig ==
    [given |-> FALSE, project_path |-> None, select |-> << >>, exclude |-> << >>,
     env_vars |-> None, emit_datasets |-> None]

NoProfileConfig == [given |-> FALSE, has_mapping |-> FALSE, schema |-> Absent]

NoOperatorArgs == [given |-> FALSE, d |-> EmptyDict]

-----------------------------------------------------------------------------
(* Selectors: an item `label:value` is the pair <<label, value>>. *)

\* field[:-1] of line 88: "tags" -> "tag", "paths" -> "path"
Singular(field) == IF field = "tags" THEN "tag" ELSE "path"

\* cosmos.dbt.selector.retrieve_by_label: the values a list holds under a label
retrieve_by_label(statement_list, field) ==
    { statement_list[i][2] : i \in { j \in DOMAIN statement_list :
                                        statement_list[j][1] = Singular(field) } }

\* line 86
Intersection(select, exclude, field) ==
    retrieve_by_label(select, field) \cap retrieve_by_label(exclude, field)

\* A loop that walks the tags only.
WatchedFieldsTagsOnly == << "tags" >>

\* line 83: the labels the loop walks, in order
WatchedFields == << "tags", "paths" >>

\* lines 83-88: the first watched field whose values intersect raises
RECURSIVE SelectorConflict(_, _, _)
SelectorConflict(select, exclude, fields) ==
    IF fields = << >> THEN NoError
    ELSE IF Intersection(select, exclude, Head(fields)) # {}
         THEN [kind |-> "CosmosValueError", msg |-> "same_label_in_select_and_exclude",
               site |-> "validate_arguments", field |-> Singular(Head(fields)),
               items |-> Intersection(select, exclude, Head(fields))]
         ELSE SelectorConflict(select, exclude, Tail(fields))

-----------------------------------------------------------------------------
(* validate_initial_user_config, lines 100-155 *)

\* A profile is optional in one containerised mode only.
ProfileOptionalModesKubernetesOnly == {"kubernetes"}

\* lines 116-119: the modes that do not need a profile_config
ProfileOptionalModes == {"kubernetes", "docker"}

\* lines 116-120
ProfileCheck(e, pf) ==
    IF ~pf.given /\ e.execution_mode \notin ProfileOptionalModes
    THEN CosmosValueError("validate_initial_user_config", "profile_config_mandatory")
    ELSE NoError

\* A check that forgets ExecutionConfig.project_path.
PathInterfaceCheckRenderOnly(e, pj, r) ==
    IF Truthy(pj.dbt_project_path) /\ Truthy(r.project_path)
    THEN CosmosValueError("validate_initial_user_config", "dbt_project_path_mutually_exclusive")
    ELSE NoError

\* lines 122-128
PathInterfaceCheck(e, pj, r) ==
    IF Truthy(pj.dbt_project_path) /\ (Truthy(r.project_path) \/ Truthy(e.project_path))
    THEN CosmosValueError("validate_initial_user_config", "dbt_project_path_mutually_exclusive")
    ELSE NoError

\* A check that forgets RenderConfig.env_vars.
DeprecatedArgsCheckNoRender(pj, r, oa) ==
    LET w1 == IF In("env", oa) THEN {"deprecated_env"} ELSE {}
        w2 == w1 \cup (IF In("vars", oa) THEN {"deprecated_vars"} ELSE {})
    IN  IF In("env", oa) /\ Truthy(pj.env_vars)
        THEN [error |-> CosmosValueError("validate_initial_user_config",
                                         "env_mutually_exclusive"),
              warnings |-> w1]
        ELSE IF In("vars", oa) /\ Truthy(pj.dbt_vars)
        THEN [error |-> CosmosValueError("validate_initial_user_config",
                                         "vars_mutually_exclusive"),
              warnings |-> w2]
        ELSE [error |-> NoError, warnings |-> w2]

\* lines 130-155: each warn() precedes the raise of its own key
DeprecatedArgsCheck(pj, r, oa) ==
    LET w1 == IF In("env", oa) THEN {"deprecated_env"} ELSE {}
        w2 == w1 \cup (IF In("vars", oa) THEN {"deprecated_vars"} ELSE {})
    IN  IF In("env", oa) /\ Truthy(pj.env_vars)
        THEN [error |-> CosmosValueError("validate_initial_user_config",
                                         "env_mutually_exclusive"),
              warnings |-> w1]
        ELSE IF In("vars", oa) /\ Truthy(pj.dbt_vars)
        THEN [error |-> CosmosValueError("validate_initial_user_config",
                                         "vars_mutually_exclusive"),
              warnings |-> w2]
        ELSE IF Truthy(pj.env_vars) /\ Truthy(r.env_vars)
        THEN [error |-> CosmosValueError("validate_initial_user_config",
                                         "env_vars_mutually_exclusive"),
              warnings |-> w2]
        ELSE [error |-> NoError, warnings |-> w2]

validate_initial_user_config(e, pf, pj, r, oa) ==
    IF ProfileCheck(e, pf) # NoError
    THEN [error |-> ProfileCheck(e, pf), warnings |-> {}]
    ELSE IF PathInterfaceCheck(e, pj, r) # NoError
    THEN [error |-> PathInterfaceCheck(e, pj, r), warnings |-> {}]
    ELSE DeprecatedArgsCheck(pj, r, oa)

-----------------------------------------------------------------------------
(* validate_adapted_user_config, lines 158-179 *)

\* A check that forgets ExecutionConfig.project_path.
validate_adapted_no_execution_check(e, pj, r) ==
    IF ~Truthy(pj.manifest_path) /\ ~Truthy(r.project_path)
    THEN CosmosValueError("validate_adapted_user_config", "render_project_path_required")
    ELSE NoError

validate_adapted_user_config(e, pj, r) ==
    IF ~Truthy(e.project_path)
    THEN CosmosValueError("validate_adapted_user_config", "execution_project_path_required")
    ELSE IF ~Truthy(pj.manifest_path) /\ ~Truthy(r.project_path)
    THEN CosmosValueError("validate_adapted_user_config", "render_project_path_required")
    ELSE NoError

-----------------------------------------------------------------------------
(* References: which object a local name points at *)

DerefExecution(h, p, ref) == IF ref = "caller" THEN h.execution ELSE p.execution

DerefRender(h, p, ref) == IF ref = "caller" THEN h.render ELSE p.render

DerefOperatorArgs(h, ref) == IF ref = "caller" THEN h.operator_args.d ELSE EmptyDict

-----------------------------------------------------------------------------
(* migrate_to_new_interface, lines 26-35 *)

\* A migration that rewrites the objects it was handed instead of copies of them.
migrate_in_place(h, p, eref, rref) ==
    LET path == h.project.dbt_project_path
    IN  [heap |-> [h EXCEPT !.execution = IF eref = "caller"
                                           THEN [@ EXCEPT !.project_path = path] ELSE @,
                            !.render = IF rref = "caller"
                                        THEN [@ EXCEPT !.project_path = path] ELSE @],
         priv |-> [p EXCEPT !.execution = IF eref # "caller"
                                           THEN [@ EXCEPT !.project_path = path] ELSE @,
                            !.render = IF rref # "caller"
                                        THEN [@ EXCEPT !.project_path = path] ELSE @],
         execution_config |-> eref,
         render_config |-> rref]

\* copy.deepcopy yields a new object with equal fields (reference "copy");
\* the two assignments of lines 33-34 go to the copies.
migrate_to_new_interface(h, p, eref, rref) ==
    LET path == h.project.dbt_project_path
        render_copy == DerefRender(h, p, rref)
        execution_copy == DerefExecution(h, p, eref)
    IN  [heap |-> h,
         priv |-> [execution |-> [execution_copy EXCEPT !.project_path = path],
                   render |-> [render_copy EXCEPT !.project_path = path]],
         execution_config |-> "copy",
         render_config |-> "copy"]

-----------------------------------------------------------------------------
(* validate_arguments, lines 66-97 *)

\* lines 90-94: a "schema" task argument is logged as deprecated and written
\* into the profile mapping's profile_args; profile_config.profile_mapping on
\* a None profile_config is an AttributeError.
FoldSchema(h, targs) ==
    IF ~In("schema", targs) THEN [heap |-> h, error |-> NoError, warnings |-> {}]
    ELSE IF ~h.profile.given
    THEN [heap |-> h,
          error |-> [kind |-> "AttributeError", msg |-> "NoneType_has_no_profile_mapping",
                     site |-> "validate_arguments", field |-> None, items |-> {}],
          warnings |-> {"deprecated_schema"}]
    ELSE [heap |-> IF h.profile.has_mapping
                   THEN [h EXCEPT !.profile.schema = targs["schema"]]
                   ELSE h,
          error |-> NoError,
          warnings |-> {"deprecated_schema"}]

\* lines 96-97; yml_ok is the verdict of ProfileConfig.validate_profiles_yml
ValidateProfilesYml(h, execution_mode, yml_ok) ==
    IF execution_mode \notin {"local", "virtualenv"} THEN NoError
    ELSE IF ~h.profile.given
    THEN [kind |-> "AttributeError", msg |-> "NoneType_has_no_validate_profiles_yml",
          site |-> "validate_arguments", field |-> None, items |-> {}]
    ELSE IF ~yml_ok
    THEN [kind |-> "CosmosValueError", msg |-> "validate_profiles_yml_failed",
          site |-> "validate_profiles_yml", field |-> None, items |-> {}]
    ELSE NoError

validate_arguments(h, select, exclude, targs, execution_mode, yml_ok) ==
    LET conflict == SelectorConflict(select, exclude, WatchedFields)
        folded == FoldSchema(h, targs)
    IN  IF conflict # NoError
        THEN [heap |-> h, error |-> conflict, warnings |-> {}]
        ELSE IF folded.error # NoError
        THEN folded
        ELSE [heap |-> folded.heap,
              error |-> ValidateProfilesYml(folded.heap, execution_mode, yml_ok),
              warnings |-> folded.warnings]

-----------------------------------------------------------------------------
(* DbtToAirflowConverter.__init__, lines 199-297 *)

TaskGroupDag(tg) ==
    CASE tg = "tg_d1" -> "d1"
      [] tg = "tg_d2" -> "d2"
      [] OTHER -> None

\* lines 213-214
ResolvedDag(t) ==
    IF ~Truthy(t.dag) /\ Truthy(t.task_group) THEN TaskGroupDag(t.task_group) ELSE t.dag

\* The comparison of line 222 inverted.
IsEarlyExitInverted(t, d, current) ==
    ~t.parse_all_dags /\ d = current /\ current # None

\* lines 219-223
IsEarlyExit(t, d, current) ==
    ~t.parse_all_dags /\ d # current /\ current # None

\* The operator_args fallback dropped.
EffectiveProjectOnly(project_value, oa, key) == project_value

\* lines 243-244

EffectiveVars(project_value, oa, key) == Or(project_value, Get(oa, key))

\* lines 265-277
BuildTaskArgs(oa, e, pj, pf, r, env, dbtv) ==
    [k \in TaskKeys |->
        CASE k = "project_dir" -> e.project_path
          [] k = "partial_parse" -> pj.partial_parse
          [] k = "profile_config" -> IF pf.given THEN "profile_config" ELSE None
          [] k = "emit_datasets" -> r.emit_datasets
          [] k = "env" -> env
          [] k = "vars" -> dbtv
          [] k = "dbt_executable_path" ->
                 IF Truthy(e.dbt_executable_path) THEN e.dbt_executable_path ELSE oa[k]
          [] k = "invocation_mode" ->
                 IF Truthy(e.invocation_mode) THEN e.invocation_mode ELSE oa[k]
          [] OTHER -> oa[k]]

NothingSeen == [seen |-> FALSE, execution_project_path |-> None, render_project_path |-> None,
                manifest_path |-> None, dbt_vars |-> None, execution_mode |-> None,
                project_dir |-> None, dag |-> None]

Execution == DerefExecution(heap, priv, execution_config)
Render == DerefRender(heap, priv, render_config)
OperatorArgs == DerefOperatorArgs(heap, operator_args)

Raise(err) ==
    /\ outcome' = "Error"
    /\ error' = err
    /\ pc' = "Returned"

Continue(next) ==
    /\ pc' = next
    /\ UNCHANGED << outcome, error >>

\* lines 213-223
ResolveTarget ==
    /\ pc = "ResolveTarget"
    /\ dag' = ResolvedDag(target)
    /\ IF ~Truthy(ResolvedDag(target))
       THEN Raise(CosmosValueError("__init__", "dag_or_task_group_required"))
       ELSE IF IsEarlyExit(target, ResolvedDag(target), current_dag_id)
            THEN outcome' = "EarlyExit" /\ pc' = "Returned" /\ UNCHANGED error
            ELSE Continue("ValidateProject")
    /\ UNCHANGED << heap, snapshot, original, priv, target, current_dag_id,
                    execution_config, render_config, operator_args, env_vars, dbt_vars,
                    task_args, calls, warnings, loaderSaw, builderSaw, build, previous >>

\* line 228; ProjectConfig.validate_project either passes or raises
ValidateProject ==
    /\ pc = "ValidateProject"
    /\ calls' = Append(calls, "validate_project")
    /\ \E ok \in BOOLEAN :
          IF ok THEN Continue("DefaultMissingConfigs")
          ELSE Raise([kind |-> "CosmosValueError", msg |-> "validate_project_failed",
                      site |-> "validate_project", field |-> None, items |-> {}])
    /\ UNCHANGED << heap, snapshot, original, priv, target, current_dag_id, dag,
                    execution_config, render_config, operator_args, env_vars, dbt_vars,
                    task_args, warnings, loaderSaw, builderSaw, build, previous >>

\* lines 230-232
DefaultMissingConfigs ==
    /\ pc = "DefaultMissingConfigs"
    /\ execution_config' = IF heap.execution.given THEN "caller" ELSE "default"
    /\ render_config' = IF heap.render.given THEN "caller" ELSE "default"
    /\ operator_args' = IF heap.operator_args.given /\ heap.operator_args.d # EmptyDict
                        THEN "caller" ELSE "default"
    /\ \E e \in DefaultExecutionConfigs :
          priv' = [execution |-> IF heap.execution.given THEN NoExecutionConfig ELSE e,
                   render |-> IF heap.render.given THEN NoRenderConfig
                              ELSE DefaultRenderConfig]
    /\ Continue("ValidateInitial")
    /\ UNCHANGED << heap, snapshot, original, target, current_dag_id, dag, env_vars,
                    dbt_vars, task_args, calls, warnings, loaderSaw, builderSaw, build, previous >>

\* line 234
ValidateInitial ==
    /\ pc = "ValidateInitial"
    /\ calls' = Append(calls, "validate_initial_user_config")
    /\ LET res == validate_initial_user_config(Execution, heap.profile, heap.project,
                                               Render, OperatorArgs)
       IN  /\ warnings' = warnings \cup res.warnings
           /\ IF res.error # NoError THEN Raise(res.error) ELSE Continue("MigrateIfLegacy")
    /\ UNCHANGED << heap, snapshot, original, priv, target, current_dag_id, dag,
                    execution_config, render_config, operator_args, env_vars, dbt_vars,
                    task_args, loaderSaw, builderSaw, build, previous >>

\* lines 238-239
MigrateIfLegacy ==
    /\ pc = "MigrateIfLegacy"
    /\ IF Truthy(heap.project.dbt_project_path)
       THEN LET m == migrate_to_new_interface(heap, priv, execution_config, render_config)
            IN  /\ heap' = m.heap
                /\ priv' = m.priv
                /\ execution_config' = m.execution_config
                /\ render_config' = m.render_config
                /\ calls' = Append(calls, "migrate_to_new_interface")
       ELSE UNCHANGED << heap, priv, execution_config, render_config, calls >>
    /\ Continue("ValidateAdapted")
    /\ UNCHANGED << snapshot, original, target, current_dag_id, dag, operator_args,
                    env_vars, dbt_vars, task_args, warnings, loaderSaw, builderSaw, build, previous >>

\* line 241
ValidateAdapted ==
    /\ pc = "ValidateAdapted"
    /\ calls' = Append(calls, "validate_adapted_user_config")
    /\ LET err == validate_adapted_user_config(Execution, heap.project, Render)
       IN  IF err # NoError THEN Raise(err) ELSE Continue("ComputeEffectiveVars")
    /\ UNCHANGED << heap, snapshot, original, priv, target, current_dag_id, dag,
                    execution_config, render_config, operator_args, env_vars, dbt_vars,
                    task_args, warnings, loaderSaw, builderSaw, build, previous >>

\* lines 243-244
ComputeEffectiveVars ==
    /\ pc = "ComputeEffectiveVars"
    /\ env_vars' = EffectiveVars(heap.project.env_vars, OperatorArgs, "env")
    /\ dbt_vars' = EffectiveVars(heap.project.dbt_vars, OperatorArgs, "vars")
    /\ Continue("LoadExternalGraph")
    /\ UNCHANGED << heap, snapshot, original, priv, target, current_dag_id, dag,
                    execution_config, render_config, operator_args, task_args, calls,
                    warnings, loaderSaw, builderSaw, build, previous >>

\* lines 256-263; DbtGraph.load either returns or raises
LoadExternalGraph ==
    /\ pc = "LoadExternalGraph"
    /\ calls' = calls \o << "DbtGraph", "load" >>
    /\ loaderSaw' = [NothingSeen EXCEPT !.seen = TRUE,
                                        !.execution_project_path = Execution.project_path,
                                        !.render_project_path = Render.project_path,
                                        !.manifest_path = heap.project.manifest_path,
                                        !.dbt_vars = dbt_vars,
                                        !.execution_mode = Execution.execution_mode]
    /\ \E ok \in BOOLEAN :
          IF ok THEN Continue("AssembleTaskArgs")
          ELSE Raise([kind |-> "CosmosLoadDbtException", msg |-> "load_failed",
                      site |-> "load", field |-> None, items |-> {}])
    /\ UNCHANGED << heap, snapshot, original, priv, target, current_dag_id, dag,
                    execution_config, render_config, operator_args, env_vars, dbt_vars,
                    task_args, warnings, builderSaw, build, previous >>

\* lines 265-277
AssembleTaskArgs ==
    /\ pc = "AssembleTaskArgs"
    /\ task_args' = BuildTaskArgs(OperatorArgs, Execution, heap.project, heap.profile,
                                  Render, env_vars, dbt_vars)
    /\ Continue("ValidateArguments")
    /\ UNCHANGED << heap, snapshot, original, priv, target, current_dag_id, dag,
                    execution_config, render_config, operator_args, env_vars, dbt_vars,
                    calls, warnings, loaderSaw, builderSaw, build, previous >>

\* lines 279-285
ValidateArguments ==
    /\ pc = "ValidateArguments"
    /\ calls' = Append(calls, "validate_arguments")
    /\ \E yml_ok \in BOOLEAN :
          LET res == validate_arguments(heap, Render.select, Render.exclude, task_args,
                                        Execution.execution_mode, yml_ok)
          IN  /\ heap' = res.heap
              /\ warnings' = warnings \cup res.warnings
              /\ IF res.error # NoError THEN Raise(res.error)
                 ELSE Continue("BuildExternalGraph")
    /\ UNCHANGED << snapshot, original, priv, target, current_dag_id, dag,
                    execution_config, render_config, operator_args, env_vars, dbt_vars,
                    task_args, loaderSaw, builderSaw, build, previous >>

\* lines 287-297
BuildExternalGraph ==
    /\ pc = "BuildExternalGraph"
    /\ calls' = Append(calls, "build_airflow_graph")
    /\ builderSaw' = [NothingSeen EXCEPT !.seen = TRUE,
                                         !.execution_project_path = Execution.project_path,
                                         !.render_project_path = Render.project_path,
                                         !.manifest_path = heap.project.manifest_path,
                                         !.dbt_vars = task_args["vars"],
                                         !.execution_mode = Execution.execution_mode,
                                         !.project_dir = task_args["project_dir"],
                                         !.dag = Or(dag, IF Truthy(target.task_group)
                                                         THEN TaskGroupDag(target.task_group)
                                                         ELSE target.task_group)]
    /\ outcome' = "Done"
    /\ pc' = "Returned"
    /\ UNCHANGED << heap, snapshot, original, priv, target, current_dag_id, dag,
                    execution_config, render_config, operator_args, env_vars, dbt_vars,
                    task_args, error, warnings, loaderSaw, build, previous >>

\* The caller builds another DbtDag / DbtTaskGroup from the same execution,
\* render, profile and operator_args objects and a new ProjectConfig.
ProjectPaths == {None, "/p1", "/p2"}

NewInvocation ==
    /\ pc = "Returned"
    /\ build < MaxBuilds
    /\ \E path \in ProjectPaths :
          LET project == [heap.project EXCEPT !.dbt_project_path = path]
          IN  /\ heap' = [heap EXCEPT !.project = project]
              /\ snapshot' = [heap EXCEPT !.project = project]
              /\ original' = [original EXCEPT !.project = project]
    /\ previous' = [project |-> heap.project, outcome |-> outcome]
    /\ build' = build + 1
    /\ pc' = "ResolveTarget"
    /\ outcome' = "Running"
    /\ error' = NoError
    /\ dag' = None
    /\ execution_config' = None
    /\ render_config' = None
    /\ operator_args' = None
    /\ priv' = [execution |-> NoExecutionConfig, render |-> NoRenderConfig]
    /\ env_vars' = None
    /\ dbt_vars' = None
    /\ task_args' = NoTaskArgs
    /\ calls' = << >>
    /\ warnings' = {}
    /\ loaderSaw' = NothingSeen
    /\ builderSaw' = NothingSeen
    /\ UNCHANGED << target, current_dag_id >>

Next ==
    \/ ResolveTarget
    \/ ValidateProject
    \/ DefaultMissingConfigs
    \/ ValidateInitial
    \/ MigrateIfLegacy
    \/ ValidateAdapted
    \/ ComputeEffectiveVars
    \/ LoadExternalGraph
    \/ AssembleTaskArgs
    \/ ValidateArguments
    \/ BuildExternalGraph
    \/ NewInvocation

-----------------------------------------------------------------------------
(* Inputs of the first call *)

NoProject == [dbt_project_path |-> None, manifest_path |-> None, env_vars |-> None,
              dbt_vars |-> None, partial_parse |-> None]

\* a legacy-interface project: ProjectConfig(dbt_project_path="/p1")
BaseProject == [dbt_project_path |-> "/p1", manifest_path |-> None, env_vars |-> None,
                dbt_vars |-> None, partial_parse |-> "True"]

BaseProfile == [given |-> TRUE, has_mapping |-> TRUE, schema |-> Absent]

BaseExecution == [given |-> TRUE, project_path |-> None, execution_mode |-> "local",
                  dbt_executable_path |-> None, invocation_mode |-> None]

BaseRender == [DefaultRenderConfig EXCEPT !.given = TRUE]

BaseTarget == [dag |-> "d1", task_group |-> None, parse_all_dags |-> FALSE]

Base == [project |-> BaseProject, profile |-> BaseProfile, execution |-> BaseExecution,
         render |-> BaseRender, operator_args |-> NoOperatorArgs, target |-> BaseTarget,
         current |-> None]

InitFrom(Inputs) ==
    /\ \E i \in Inputs :
          /\ heap = [project |-> i.project, profile |-> i.profile,
                     execution |-> i.execution, render |-> i.render,
                     operator_args |-> i.operator_args]
          /\ snapshot = heap
          /\ original = heap
          /\ target = i.target
          /\ current_dag_id = i.current
    /\ priv = [execution |-> NoExecutionConfig, render |-> NoRenderConfig]
    /\ pc = "ResolveTarget"
    /\ dag = None
    /\ execution_config = None
    /\ render_config = None
    /\ operator_args = None
    /\ env_vars = None
    /\ dbt_vars = None
    /\ task_args = NoTaskArgs
    /\ outcome = "Running"
    /\ error = NoError
    /\ calls = << >>
    /\ warnings = {}
    /\ loaderSaw = NothingSeen
    /\ builderSaw = NothingSeen
    /\ build = 1
    /\ previous = [project |-> NoProject, outcome |-> None]

Targets == [dag : {None, "d1"}, task_group : {None, "tg_d1", "tg_d2", "tg_nodag"},
            parse_all_dags : BOOLEAN]

CurrentDagIds == {None, "d1", "d2"}

Dict(env, vrs, schema, extras) ==
    [k \in OperatorKeys |->
        CASE k = "env" -> env
          [] k = "vars" -> vrs
          [] k = "schema" -> schema
          [] k = "project_dir" -> IF extras THEN "/op" ELSE Absent
          [] k = "partial_parse" -> IF extras THEN "False" ELSE Absent
          [] k = "profile_config" -> IF extras THEN "op_profile" ELSE Absent
          [] k = "emit_datasets" -> IF extras THEN "False" ELSE Absent
          [] k = "dbt_executable_path" -> IF extras THEN "/op/dbt" ELSE Absent
          [] k = "retries" -> IF extras THEN "3" ELSE Absent
          [] OTHER -> Absent]

\* the target slice: every way of naming the target, with a valid and two invalid configs
TargetInputs ==
    { [Base EXCEPT !.target = t, !.current = c, !.execution.project_path = ep,
                   !.project.env_vars = pe,
                   !.operator_args = [given |-> TRUE, d |-> Dict("{A:1}", Absent, Absent, FALSE)]] :
        t \in Targets, c \in CurrentDagIds, ep \in {None, "/e"}, pe \in {None, "{B:2}"} }

\* the path slice: legacy and split path interfaces, defaults, manifest, profile
PathInputs ==
    { [Base EXCEPT !.project.dbt_project_path = pp, !.project.manifest_path = m,
                   !.execution = e, !.render = r, !.profile = pf, !.target.dag = d] :
        pp \in ProjectPaths, m \in {None, "/m"},
        e \in {NoExecutionConfig} \cup
              { [BaseExecution EXCEPT !.project_path = x, !.execution_mode = md] :
                    x \in {None, "/e"}, md \in {"local", "kubernetes"} },
        r \in {NoRenderConfig} \cup { [BaseRender EXCEPT !.project_path = x] : x \in {None, "/r"} },
        pf \in {NoProfileConfig, BaseProfile},
        d \in {None, "d1"} }

\* the env / vars slice
EnvInputs ==
    { [Base EXCEPT !.project.env_vars = pe, !.project.dbt_vars = pv,
                   !.render.env_vars = re, !.operator_args = oa,
                   !.execution.dbt_executable_path = x, !.execution.invocation_mode = im,
                   !.profile = pf] :
        pe \in {None, "{}", "{B:2}"}, pv \in {None, "{}", "{w:2}"}, re \in {None, "{R:3}"},
        oa \in {NoOperatorArgs} \cup
               { [given |-> TRUE, d |-> Dict(env, vrs, Absent, extras)] :
                     env \in {Absent, "{}", "{A:1}"}, vrs \in {Absent, "{}", "{v:1}"},
                     extras \in BOOLEAN },
        x \in {None, "/usr/bin/dbt"}, im \in {None, "subprocess"},
        pf \in {NoProfileConfig, BaseProfile} }

\* the schema / profile / execution-mode slice
SchemaInputs ==
    { [Base EXCEPT !.profile = pf, !.execution = e, !.operator_args = oa,
                   !.render.select = sel, !.render.exclude = sel, !.target.dag = d] :
        pf \in {NoProfileConfig} \cup
               { [given |-> TRUE, has_mapping |-> hm, schema |-> sc] :
                     hm \in BOOLEAN, sc \in {Absent, "s0"} },
        e \in {NoExecutionConfig} \cup
              { [BaseExecution EXCEPT !.execution_mode = md] : md \in ExecutionModes },
        oa \in { NoOperatorArgs, [given |-> TRUE, d |-> EmptyDict],
                 [given |-> TRUE, d |-> Dict(Absent, Absent, "s", FALSE)],
                 [given |-> TRUE, d |-> Dict(Absent, "{v:1}", "s", TRUE)] },
        sel \in { << >>, << <<"tag", "a">> >> },
        d \in {None, "d1"} }

\* the selector slice
SelectorItems == { <<"tag", "a">>, <<"tag", "b">>, <<"path", "a">>, <<"config", "a">> }

SelectorLists == UNION { [1..n -> SelectorItems] : n \in 0..MaxLen }

SelectorInputs ==
    { [Base EXCEPT !.render.select = sel, !.render.exclude = exc] :
        sel \in SelectorLists, exc \in SelectorLists }

Inputs == TargetInputs \cup PathInputs \cup EnvInputs \cup SchemaInputs \cup SelectorInputs

Init == InitFrom(Inputs)

Spec == Init /\ [][Next]_vars

-----------------------------------------------------------------------------
(* Vocabulary of the properties *)

Called(name) == \E i \in DOMAIN calls : calls[i] = name

Position(name) == CHOOSE i \in DOMAIN calls : calls[i] = name

Returned == pc = "Returned"

\* the arguments as the caller passed them to the current call
Given == snapshot

GivenOperatorArgs == IF Given.operator_args.given THEN Given.operator_args.d ELSE EmptyDict

IsSet(v) == v # None /\ v # "{}" /\ v # ""

NoLoaderNoBuilder ==
    /\ ~Called("DbtGraph") /\ ~Called("load") /\ ~Called("build_airflow_graph")
    /\ ~loaderSaw.seen /\ ~builderSaw.seen

-----------------------------------------------------------------------------
\* C1: after every constructor call, however it ends (Done, EarlyExit or an
\* error), every caller-supplied configuration object (project, profile with
\* its profile mapping's arguments, render, execution, operator_args) is
\* structurally equal to its snapshot taken before the call, and every call
\* of a sequence sharing the objects observes the original values.
C1_CallerConfigsUnchanged ==
    Returned => (heap = snapshot /\ heap = original)

-----------------------------------------------------------------------------
C2_TargetId ==
    IF target.dag # None THEN target.dag
    ELSE IF target.task_group # None THEN TaskGroupDag(target.task_group)
    ELSE None

C2_Mismatch ==
    /\ C2_TargetId # None
    /\ ~target.parse_all_dags
    /\ current_dag_id # None
    /\ current_dag_id # C2_TargetId

\* C2: with a target supplied (a DAG, or a task group whose DAG is used),
\* parse_all_dags False and the parsing context reporting a DAG id other than
\* the target's, the constructor returns without raising and without invoking
\* project validation, the validators, the migrator, the graph loader,
\* validate_arguments or the graph builder.
C2_EarlyExitDoesNothing ==
    C2_Mismatch =>
        /\ calls = << >>
        /\ error = NoError
        /\ outcome \in {"Running", "EarlyExit"}
        /\ Returned => outcome = "EarlyExit"
        /\ pc \in {"ResolveTarget", "Returned"}
        /\ ~loaderSaw.seen /\ ~builderSaw.seen
        /\ heap = snapshot

C2_Witness ==
    /\ C2_Mismatch
    /\ target.dag = None /\ target.task_group = "tg_d1" /\ current_dag_id = "d2"
    /\ Returned /\ outcome = "EarlyExit"

-----------------------------------------------------------------------------
C3_OwnExecutionPath ==
    IF Truthy(heap.project.dbt_project_path) THEN heap.project.dbt_project_path
    ELSE original.execution.project_path

C3_OwnRenderPath ==
    IF Truthy(heap.project.dbt_project_path) THEN heap.project.dbt_project_path
    ELSE original.render.project_path

\* C3: migrate_to_new_interface returns execution and render objects distinct
\* from its inputs, both with project_path = project.dbt_project_path and all
\* other fields as in the inputs, and leaves the inputs equal to their
\* snapshots; when two successive builds reuse the same execution / render
\* objects with different legacy project paths, the loader, the builder and
\* task_args["project_dir"] of each build see that build's own path.
C3_MigrationIsolated ==
    /\ Called("migrate_to_new_interface") =>
          /\ execution_config = "copy" /\ render_config = "copy"
          /\ priv.execution.project_path = heap.project.dbt_project_path
          /\ priv.render.project_path = heap.project.dbt_project_path
          /\ heap.execution.given =>
                [priv.execution EXCEPT !.project_path = heap.execution.project_path]
                    = heap.execution
          /\ ~heap.execution.given =>
                [priv.execution EXCEPT !.project_path = None] \in DefaultExecutionConfigs
          /\ heap.render.given =>
                [priv.render EXCEPT !.project_path = heap.render.project_path] = heap.render
          /\ ~heap.render.given =>
                [priv.render EXCEPT !.project_path = None] = DefaultRenderConfig
          /\ heap.execution = snapshot.execution /\ heap.render = snapshot.render
    /\ heap.execution = original.execution /\ heap.render = original.render
    /\ loaderSaw.seen =>
          /\ loaderSaw.execution_project_path = C3_OwnExecutionPath
          /\ loaderSaw.render_project_path = C3_OwnRenderPath
    /\ task_args # NoTaskArgs => task_args["project_dir"] = C3_OwnExecutionPath
    /\ builderSaw.seen =>
          /\ builderSaw.project_dir = C3_OwnExecutionPath
          /\ builderSaw.execution_project_path = C3_OwnExecutionPath
          /\ builderSaw.render_project_path = C3_OwnRenderPath
    /\ (build > 1 /\ loaderSaw.seen /\ Truthy(heap.project.dbt_project_path)
            /\ previous.project.dbt_project_path # heap.project.dbt_project_path) =>
          /\ loaderSaw.execution_project_path # previous.project.dbt_project_path
          /\ loaderSaw.render_project_path # previous.project.dbt_project_path

C3_Witness ==
    /\ build = 2
    /\ previous.outcome = "Done" /\ previous.project.dbt_project_path = "/p1"
    /\ heap.project.dbt_project_path = "/p2"
    /\ heap.execution.given /\ heap.render.given
    /\ outcome = "Done"
    /\ builderSaw.project_dir = "/p2" /\ loaderSaw.render_project_path = "/p2"

-----------------------------------------------------------------------------
C4_PathConflict ==
    /\ IsSet(Given.project.dbt_project_path)
    /\ IsSet(Given.render.project_path) \/ IsSet(Given.execution.project_path)

C4_NoMigratorLoaderBuilder ==
    ~Called("migrate_to_new_interface") /\ NoLoaderNoBuilder

\* C4 (as stated): in any run that is not an early exit, if
\* project.dbt_project_path is set and render.project_path or
\* execution.project_path is also set, construction fails with a
\* CosmosValueError raised in initial validation, and the migrator, the graph
\* loader and the graph builder are never invoked.
C4_AsStated ==
    (Returned /\ outcome # "EarlyExit" /\ C4_PathConflict) =>
        /\ outcome = "Error"
        /\ error.kind = "CosmosValueError"
        /\ error.site = "validate_initial_user_config"
        /\ C4_NoMigratorLoaderBuilder

\* C4 (amended): with that conflict the migrator, the graph loader and the
\* graph builder are never invoked, and every run that reaches initial
\* validation (a target was resolved, no early exit, project validation
\* passed) fails there with a CosmosValueError.
C4_PathConflictFailsInInitialValidation ==
    C4_PathConflict =>
        /\ C4_NoMigratorLoaderBuilder
        /\ outcome # "Done"
        /\ Called("validate_initial_user_config") =>
              /\ Returned /\ outcome = "Error"
              /\ error.kind = "CosmosValueError"
              /\ error.site = "validate_initial_user_config"

C4_Witness ==
    /\ C4_PathConflict
    /\ IsSet(Given.execution.project_path) /\ ~IsSet(Given.render.project_path)
    /\ Given.profile.given
    /\ Returned /\ error.msg = "dbt_project_path_mutually_exclusive"

-----------------------------------------------------------------------------
C5_OtherInitialConflict ==
    \/ C4_PathConflict
    \/ GivenOperatorArgs["env"] # Absent /\ IsSet(Given.project.env_vars)
    \/ GivenOperatorArgs["vars"] # Absent /\ IsSet(Given.project.dbt_vars)
    \/ IsSet(Given.project.env_vars) /\ IsSet(Given.render.env_vars)

\* C5: with no profile config supplied, initial validation raises the
\* profile-is-mandatory error exactly when the execution mode (of the supplied
\* or of the default execution config) is neither KUBERNETES nor DOCKER; with
\* KUBERNETES or DOCKER and no other initial-validation conflict the run
\* passes initial validation.
C5_ProfileMandatoryUnlessContainer ==
    (~Given.profile.given /\ Called("validate_initial_user_config")) =>
        /\ Execution.execution_mode \notin {"kubernetes", "docker"} =>
              /\ Returned /\ outcome = "Error"
              /\ error.kind = "CosmosValueError"
              /\ error.msg = "profile_config_mandatory"
              /\ error.site = "validate_initial_user_config"
        /\ Execution.execution_mode \in {"kubernetes", "docker"} =>
              /\ error.msg # "profile_config_mandatory"
              /\ ~C5_OtherInitialConflict =>
                    /\ error.site # "validate_initial_user_config"
                    /\ Called("validate_adapted_user_config") \/ pc = "MigrateIfLegacy"
                       \/ pc = "ValidateAdapted"

C5_Witness ==
    /\ ~Given.profile.given /\ ~Given.execution.given
    /\ Execution.execution_mode = "docker"
    /\ outcome = "Done"

-----------------------------------------------------------------------------
C6_EnvConflict == GivenOperatorArgs["env"] # Absent /\ IsSet(Given.project.env_vars)

C6_VarsConflict == GivenOperatorArgs["vars"] # Absent /\ IsSet(Given.project.dbt_vars)

C6_RenderConflict == IsSet(Given.project.env_vars) /\ IsSet(Given.render.env_vars)

C6_Conflict == C6_EnvConflict \/ C6_VarsConflict \/ C6_RenderConflict

C6_MutualExclusivityErrors ==
    {"env_mutually_exclusive", "vars_mutually_exclusive", "env_vars_mutually_exclusive",
     "dbt_project_path_mutually_exclusive"}

C6_ProfileCheckPasses ==
    Given.profile.given \/ Execution.execution_mode \in {"kubernetes", "docker"}

C6_DeprecatedKeyOnlyWarns ==
    (Called("validate_initial_user_config") /\ C6_ProfileCheckPasses /\ ~C4_PathConflict) =>
        /\ (GivenOperatorArgs["env"] # Absent /\ ~IsSet(Given.project.env_vars)) =>
              /\ "deprecated_env" \in warnings
              /\ error.msg # "env_mutually_exclusive"
        /\ (GivenOperatorArgs["vars"] # Absent /\ ~IsSet(Given.project.dbt_vars)
                /\ ~C6_EnvConflict) =>
              /\ "deprecated_vars" \in warnings
              /\ error.msg # "vars_mutually_exclusive"
        /\ ~C6_Conflict => error.site # "validate_initial_user_config"

\* C6 (as stated): in any run that is not an early exit, if operator_args has
\* env while project.env_vars is set, or vars while project.dbt_vars is set,
\* or project.env_vars and render.env_vars are both set, construction fails
\* with a mutual-exclusivity CosmosValueError before the graph loader is
\* invoked; a deprecated key without its project-level counterpart does not
\* fail initial validation and only a deprecation warning is emitted.
C6_AsStated ==
    /\ (Returned /\ outcome # "EarlyExit" /\ C6_Conflict) =>
          /\ outcome = "Error"
          /\ error.kind = "CosmosValueError"
          /\ error.msg \in C6_MutualExclusivityErrors
          /\ NoLoaderNoBuilder
    /\ C6_DeprecatedKeyOnlyWarns

\* C6 (amended): with such a conflict the graph loader is never invoked and no
\* run ends Done; a run that reaches initial validation and passes its profile
\* check fails there with a mutual-exclusivity CosmosValueError (the one of
\* the first conflicting pair in the order path interface, env, vars,
\* env_vars); the deprecated-key part is as stated.
C6_ConflictFailsBeforeLoading ==
    /\ C6_Conflict =>
          /\ NoLoaderNoBuilder
          /\ outcome # "Done"
          /\ (Called("validate_initial_user_config") /\ C6_ProfileCheckPasses) =>
                /\ Returned /\ outcome = "Error"
                /\ error.kind = "CosmosValueError"
                /\ error.site = "validate_initial_user_config"
                /\ error.msg \in C6_MutualExclusivityErrors
                /\ error.msg = (IF C4_PathConflict THEN "dbt_project_path_mutually_exclusive"
                                ELSE IF C6_EnvConflict THEN "env_mutually_exclusive"
                                ELSE IF C6_VarsConflict THEN "vars_mutually_exclusive"
                                ELSE "env_vars_mutually_exclusive")
    /\ C6_DeprecatedKeyOnlyWarns

C6_Witness ==
    /\ ~C6_EnvConflict /\ ~C6_VarsConflict /\ C6_RenderConflict
    /\ GivenOperatorArgs["vars"] # Absent
    /\ Returned /\ error.msg = "env_vars_mutually_exclusive"
    /\ "deprecated_vars" \in warnings

-----------------------------------------------------------------------------
C7_Under(list, label) ==
    { v \in {"a", "b"} : \E i \in DOMAIN list : list[i] = << label, v >> }

C7_SharedTags == C7_Under(Render.select, "tag") \cap C7_Under(Render.exclude, "tag")

C7_SharedPaths == C7_Under(Render.select, "path") \cap C7_Under(Render.exclude, "path")

\* C7: when validate_arguments runs, if the select and exclude lists share a
\* value under the tag label or under the path label it raises a
\* CosmosValueError naming the label and the set of intersecting values and
\* the graph builder is not invoked; if they share neither, selector
\* validation raises nothing.
C7_SelectorConflictRaises ==
    Called("validate_arguments") =>
        /\ (C7_SharedTags # {} \/ C7_SharedPaths # {}) =>
              /\ Returned /\ outcome = "Error"
              /\ error.kind = "CosmosValueError"
              /\ error.msg = "same_label_in_select_and_exclude"
              /\ error.field = (IF C7_SharedTags # {} THEN "tag" ELSE "path")
              /\ error.items = (IF C7_SharedTags # {} THEN C7_SharedTags ELSE C7_SharedPaths)
              /\ ~Called("build_airflow_graph") /\ ~builderSaw.seen
        /\ (C7_SharedTags = {} /\ C7_SharedPaths = {}) =>
              error.msg # "same_label_in_select_and_exclude"

C7_Witness ==
    /\ C7_SharedTags = {} /\ C7_SharedPaths = {"a"}
    /\ C7_Under(Render.select, "tag") = {"a"} /\ C7_Under(Render.exclude, "tag") = {"b"}
    /\ Returned /\ error.field = "path" /\ error.items = {"a"}

-----------------------------------------------------------------------------
\* C8: a schema key in operator_args is non-fatal for every execution mode and
\* with or without a profile config / profile mapping: a run that passed
\* initial and adapted validation and graph loading, with no selector
\* conflict, emits a deprecation warning, writes the value into the profile
\* mapping's arguments exactly when a profile mapping exists, and goes on to
\* invoke the graph builder.
C8_SchemaIsNonFatal ==
    (Returned /\ Called("validate_arguments") /\ GivenOperatorArgs["schema"] # Absent
        /\ C7_SharedTags = {} /\ C7_SharedPaths = {}
        /\ error.msg # "validate_profiles_yml_failed") =>
        /\ outcome = "Done"
        /\ Called("build_airflow_graph")
        /\ "deprecated_schema" \in warnings
        /\ (Given.profile.given /\ Given.profile.has_mapping) =>
              heap.profile.schema = GivenOperatorArgs["schema"]
        /\ ~(Given.profile.given /\ Given.profile.has_mapping) =>
              heap.profile = Given.profile

-----------------------------------------------------------------------------
C9_ExecutionPathMissing == ~IsSet(Execution.project_path)

C9_RenderSourceMissing ==
    ~IsSet(heap.project.manifest_path) /\ ~IsSet(Render.project_path)

\* C9: adapted validation runs strictly after migration and strictly before
\* graph loading; the loader is invoked only when the (possibly migrated)
\* execution project_path is set and the manifest path or the (possibly
\* migrated) render project_path is set; otherwise construction fails with a
\* CosmosValueError and neither loader nor builder is invoked.
C9_AdaptedValidationGuardsLoading ==
    /\ (Called("validate_adapted_user_config") /\ Called("migrate_to_new_interface")) =>
          Position("migrate_to_new_interface") < Position("validate_adapted_user_config")
    /\ (Called("validate_adapted_user_config") /\ IsSet(heap.project.dbt_project_path)) =>
          Called("migrate_to_new_interface")
    /\ Called("DbtGraph") =>
          /\ Called("validate_adapted_user_config")
          /\ Position("validate_adapted_user_config") < Position("DbtGraph")
    /\ loaderSaw.seen =>
          /\ IsSet(loaderSaw.execution_project_path)
          /\ IsSet(loaderSaw.manifest_path) \/ IsSet(loaderSaw.render_project_path)
          /\ loaderSaw.execution_project_path = Execution.project_path
          /\ loaderSaw.render_project_path = Render.project_path
    /\ (Called("validate_adapted_user_config")
           /\ (C9_ExecutionPathMissing \/ C9_RenderSourceMissing)) =>
          /\ Returned /\ outcome = "Error"
          /\ error.kind = "CosmosValueError"
          /\ error.site = "validate_adapted_user_config"
          /\ NoLoaderNoBuilder

C9_Witness ==
    /\ Called("validate_adapted_user_config")
    /\ C9_ExecutionPathMissing
    /\ IsSet(heap.project.manifest_path) /\ IsSet(Render.project_path)
    /\ Returned /\ error.msg = "execution_project_path_required"

-----------------------------------------------------------------------------
C10_Fallback(key) == IF GivenOperatorArgs[key] = Absent THEN None ELSE GivenOperatorArgs[key]

C10_Env ==
    IF heap.project.env_vars \notin {None, "{}"} THEN heap.project.env_vars
    ELSE C10_Fallback("env")

C10_Vars ==
    IF heap.project.dbt_vars \notin {None, "{}"} THEN heap.project.dbt_vars
    ELSE C10_Fallback("vars")

\* C10: in every run that assembles task_args, its env entry is
\* project.env_vars when that is set and non-empty and operator_args["env"]
\* otherwise (None when the key is absent); its vars entry, also handed to the
\* graph loader, is project.dbt_vars when set and non-empty and
\* operator_args["vars"] otherwise; project_dir, partial_parse,
\* profile_config, env and vars override same-named operator_args keys.
C10_EffectiveVarsInTaskArgs ==
    /\ loaderSaw.seen => loaderSaw.dbt_vars = C10_Vars
    /\ task_args # NoTaskArgs =>
          /\ task_args["env"] = C10_Env
          /\ task_args["vars"] = C10_Vars
          /\ task_args["project_dir"] = Execution.project_path
          /\ task_args["partial_parse"] = heap.project.partial_parse
          /\ task_args["profile_config"] =
                (IF heap.profile.given THEN "profile_config" ELSE None)
          /\ task_args["retries"] = GivenOperatorArgs["retries"]
    /\ builderSaw.seen => builderSaw.dbt_vars = C10_Vars

C10_Witness ==
    /\ outcome = "Done"
    /\ heap.project.env_vars = "{}" /\ GivenOperatorArgs["env"] = "{A:1}"
    /\ heap.project.dbt_vars = "{w:2}" /\ GivenOperatorArgs["vars"] = Absent
    /\ GivenOperatorArgs["project_dir"] = "/op" /\ task_args["project_dir"] = "/p1"
    /\ task_args["env"] = "{A:1}" /\ task_args["vars"] = "{w:2}"

====
